---- MODULE Spec2Model ----
(***************************************************************************)
(* Simulation core of the kart racing game (src/game.js; the mobile build  *)
(* src/unnamed/part_001 carries the same core with cosmetic additions).    *)
(*                                                                         *)
(* Numbers are fixed point.  Time is counted in 1/60 s, speed in 1/100     *)
(* km/h, drift charge in 1/3 charge point, angles in milliradian, progress *)
(* in 1/200 checkpoint and positions in 2^-16 pixel.  A product with a      *)
(* fractional factor is rounded down to the unit, where the program        *)
(* rounds to the nearest double.                                           *)
(*                                                                         *)
(* Kart positions and headings are driven by floating-point trigonometry.  *)
(* The race specifications do not carry them: each frame receives, as its  *)
(* input, the geometric facts the code derives from the positions (which   *)
(* karts are off the corridor, how far each kart is from its target        *)
(* checkpoint, which power-up is in reach, which pairs overlap).  The      *)
(* collision specifications carry positions for karts lined up on the      *)
(* start straight, where the geometry of the pair loop is exact, and on    *)
(* the line through the track centre, where that of the wall is as well.   *)
(***************************************************************************)
EXTENDS Integers, Sequences, FiniteSets, TLC

\* ------------------------------------------------------------------ units
TicksPerSec == 60
SpeedScale == 100
ChargeScale == 3
AngleScale == 1000
ProgressScale == 200
PosScale == 65536
Percent == 100

\* ----------------------------------------------------------------- CONFIG
MAX_SPEED == 200 * SpeedScale
ACCELERATION == 120 * SpeedScale
DECELERATION == 80 * SpeedScale
BRAKE_POWER == 200 * SpeedScale
STEERING_BASE == (35 * AngleScale) \div 10
STEERING_SPEED_FACTOR == 70
DRIFT_GRIP == 92
DRIFT_BOOST_RATE == 40 * ChargeScale
DRIFT_BOOST_MAX == 100 * ChargeScale
DRIFT_BOOST_SPEED == 50 * SpeedScale
DRIFT_BOOST_DURATION == (3 * TicksPerSec) \div 2
TOTAL_LAPS == 3
CHECKPOINT_COUNT == 4
RUBBER_BAND_STRENGTH == 30
POWERUP_COUNT == 4
BOOST_DURATION == 2 * TicksPerSec
SHIELD_DURATION == 5 * TicksPerSec
SLOW_DURATION == 3 * TicksPerSec
SLOW_FACTOR == 50

\* Literals of the code that are not in CONFIG.
NumKarts == 4
COUNTDOWN_START == 3 * TicksPerSec
RESPAWN_TIME == 5 * TicksPerSec
MAX_DT == (5 * TicksPerSec) \div 100
DRIFT_MIN_SPEED == 50 * SpeedScale
DRIFT_RELEASE_CHARGE == 30 * ChargeScale
DRIFT_ANGLE_MAX == AngleScale \div 2
CHECKPOINT_RADIUS == 50
PROGRESS_RANGE == 200
MIN_DIST == 25 * PosScale
AI_TARGET_FACTOR == 85
RUBBER_BAND_THRESHOLD == ProgressScale \div 2
WALL_FACTOR == 70
BUMP_TRANSFER == 30
AI_CROWD_FACTOR == 90
TRACK_CENTER_X == 400
TRACK_RADIUS_X == 320
TRACK_RADIUS_Y == 220
TRACK_WIDTH == 120
WALL_MARGIN == 15

Karts == 1..NumKarts
Player == 1
NoKart == 0
PowerUps == 1..POWERUP_COUNT
ItemTypes == {"boost", "shield", "slow"}
NoItem == "none"
KeyNames == {"up", "down", "left", "right", "drift", "useItem"}
Pairs == {p \in Karts \X Karts : p[1] < p[2]}

VARIABLES
  gameState,   \* [running, countdown, raceTime, finished]
  keys,        \* the pressed-key flags of initInput
  karts,       \* game.karts, kart 1 is the player
  powerUps,    \* game.powerUps
  frame,       \* the input of the last call of game.update / of the last step
  ticks        \* racing frames simulated so far (bounds the exploration)

vars == <<gameState, keys, karts, powerUps, frame, ticks>>

\* ------------------------------------------------------------- arithmetic
Min(a, b) == IF a < b THEN a ELSE b
Max(a, b) == IF a > b THEN a ELSE b
Abs(a) == IF a < 0 THEN -a ELSE a
Clamp(lo, hi, v) == Max(lo, Min(hi, v))
\* v * num / den rounded toward zero.
Scale(v, num, den) == IF v >= 0 THEN (v * num) \div den ELSE -(((-v) * num) \div den)


\* ------------------------------------------------------------------- Kart
\* x is the kart's abscissa on a horizontal line: the start straight (y = 80,
\* through checkpoint 0) or the line through the track centre (y = 300, through
\* checkpoint 1); a race specification leaves it at 0 and reads the frame instead.
\* angle is the heading the key input gives the player's kart; the heading of a
\* CPU kart is steered by the positions and is part of the frame's geometry.
NewKart(isPlayer) ==
  [isPlayer |-> isPlayer, x |-> 0, angle |-> 0, speed |-> 0,
   drifting |-> FALSE, driftDirection |-> 0, driftBoost |-> 0, driftAngleOffset |-> 0,
   boosting |-> FALSE, boostTimer |-> 0,
   slowed |-> FALSE, slowTimer |-> 0,
   shielded |-> FALSE, shieldTimer |-> 0,
   item |-> NoItem,
   lap |-> 0, checkpoint |-> 0, lastCheckpoint |-> -1,
   totalProgress |-> 0, position |-> 1,
   finished |-> FALSE, finishTime |-> 0]

getMaxSpeed(k) ==
  LET boosted == IF k.boosting THEN MAX_SPEED + DRIFT_BOOST_SPEED ELSE MAX_SPEED
  IN IF k.slowed THEN Scale(boosted, SLOW_FACTOR, Percent) ELSE boosted

\* Kart.update: the three effect timers.
KartUpdate(k, dt) ==
  LET bt == IF k.boostTimer > 0 THEN k.boostTimer - dt ELSE k.boostTimer
      st == IF k.slowTimer > 0 THEN k.slowTimer - dt ELSE k.slowTimer
      ht == IF k.shieldTimer > 0 THEN k.shieldTimer - dt ELSE k.shieldTimer
  IN [k EXCEPT !.boostTimer = bt,
               !.boosting = IF k.boostTimer > 0 /\ bt <= 0 THEN FALSE ELSE @,
               !.slowTimer = st,
               !.slowed = IF k.slowTimer > 0 /\ st <= 0 THEN FALSE ELSE @,
               !.shieldTimer = ht,
               !.shielded = IF k.shieldTimer > 0 /\ ht <= 0 THEN FALSE ELSE @]

\* A drift boost that never shortens a boost that is running.
applyBoostExtends(k) ==
  [k EXCEPT !.boosting = TRUE, !.boostTimer = Max(@, DRIFT_BOOST_DURATION), !.driftBoost = 0]

applyBoost(k) ==
  [k EXCEPT !.boosting = TRUE, !.boostTimer = DRIFT_BOOST_DURATION, !.driftBoost = 0]

\* Kart.hit: a shield absorbs the hit, otherwise the kart spins out.
hit(k) ==
  IF k.shielded THEN [k EXCEPT !.shielded = FALSE, !.shieldTimer = 0]
  ELSE [k EXCEPT !.speed = Scale(@, 30, Percent)]

\* ------------------------------------------------------------------ items
\* A slow item that does not look at shields.
useItemThroughShields(ks, i) ==
  LET item == ks[i].item
      ks1 == [ks EXCEPT ![i].item = NoItem]
  IN CASE item = "boost" ->
            [ks1 EXCEPT ![i].boosting = TRUE, ![i].boostTimer = BOOST_DURATION]
       [] item = "shield" ->
            [ks1 EXCEPT ![i].shielded = TRUE, ![i].shieldTimer = SHIELD_DURATION]
       [] item = "slow" ->
            [o \in Karts |->
               IF o # i
               THEN [ks1[o] EXCEPT !.slowed = TRUE, !.slowTimer = SLOW_DURATION]
               ELSE ks1[o]]
       [] OTHER -> ks1

useItem(ks, i) ==
  LET item == ks[i].item
      ks1 == [ks EXCEPT ![i].item = NoItem]
  IN CASE item = "boost" ->
            [ks1 EXCEPT ![i].boosting = TRUE, ![i].boostTimer = BOOST_DURATION]
       [] item = "shield" ->
            [ks1 EXCEPT ![i].shielded = TRUE, ![i].shieldTimer = SHIELD_DURATION]
       [] item = "slow" ->
            [o \in Karts |->
               IF o # i /\ ~ks1[o].shielded
               THEN [ks1[o] EXCEPT !.slowed = TRUE, !.slowTimer = SLOW_DURATION]
               ELSE ks1[o]]
       [] OTHER -> ks1

\* ---------------------------------------------------------- player physics
SteerRate(speed) ==
  STEERING_BASE
    - (STEERING_BASE * Scale(speed, STEERING_SPEED_FACTOR, Percent)) \div MAX_SPEED

\* The drift branch without the clamp of the slide angle.
DriftHoldNoClamp(k, steering, steerRate, dt) ==
  LET dir == IF k.drifting THEN k.driftDirection ELSE steering
  IN [k EXCEPT !.drifting = TRUE,
               !.driftDirection = dir,
               !.driftBoost = Min(DRIFT_BOOST_MAX, @ + Scale(DRIFT_BOOST_RATE, dt, TicksPerSec)),
               !.driftAngleOffset = @ + dir * Scale(steerRate, dt, 2 * TicksPerSec),
               !.angle = @ + steering * Scale(steerRate, 7 * dt, 10 * TicksPerSec),
               !.speed = Scale(@, DRIFT_GRIP, Percent)]

\* The release branch with a boost from the threshold charge on.
DriftReleaseAtThreshold(k) ==
  IF k.drifting
  THEN LET b == IF k.driftBoost >= DRIFT_RELEASE_CHARGE THEN applyBoost(k) ELSE k
       IN [b EXCEPT !.drifting = FALSE, !.driftAngleOffset = 0, !.driftBoost = 0]
  ELSE k

\* The drift branch of updatePlayerKart: charge, slide angle, grip.
DriftHold(k, steering, steerRate, dt) ==
  LET dir == IF k.drifting THEN k.driftDirection ELSE steering
      charge == Min(DRIFT_BOOST_MAX, k.driftBoost + Scale(DRIFT_BOOST_RATE, dt, TicksPerSec))
      offset == k.driftAngleOffset + dir * Scale(steerRate, dt, 2 * TicksPerSec)
  IN [k EXCEPT !.drifting = TRUE,
               !.driftDirection = dir,
               !.driftBoost = charge,
               !.driftAngleOffset = Clamp(-DRIFT_ANGLE_MAX, DRIFT_ANGLE_MAX, offset),
               !.angle = @ + steering * Scale(steerRate, 7 * dt, 10 * TicksPerSec),
               !.speed = Scale(@, DRIFT_GRIP, Percent)]

\* The else branch: a drift that was going on ends, with a boost if charged enough.
DriftRelease(k) ==
  IF k.drifting
  THEN LET b == IF k.driftBoost > DRIFT_RELEASE_CHARGE THEN applyBoost(k) ELSE k
       IN [b EXCEPT !.drifting = FALSE, !.driftAngleOffset = 0, !.driftBoost = 0]
  ELSE k

Steering(ky) == IF ky.right THEN 1 ELSE IF ky.left THEN -1 ELSE 0

\* Normal steering: kart.angle += steering * steerRate * dt.
Steer(k, steering, steerRate, dt) ==
  [k EXCEPT !.angle = @ + steering * Scale(steerRate, dt, TicksPerSec)]

\* A speed update in which the brake wins over the accelerator.
PlayerSpeedBrakeFirst(k, ky, dt) ==
  LET raw == IF ky.down THEN k.speed - Scale(BRAKE_POWER, dt, TicksPerSec)
             ELSE IF ky.up THEN k.speed + Scale(ACCELERATION, dt, TicksPerSec)
             ELSE k.speed - Scale(DECELERATION, dt, 2 * TicksPerSec)
  IN Clamp(0, getMaxSpeed(k), raw)

PlayerSpeed(k, ky, dt) ==
  LET raw == IF ky.up THEN k.speed + Scale(ACCELERATION, dt, TicksPerSec)
             ELSE IF ky.down THEN k.speed - Scale(BRAKE_POWER, dt, TicksPerSec)
             ELSE k.speed - Scale(DECELERATION, dt, 2 * TicksPerSec)
  IN Clamp(0, getMaxSpeed(k), raw)

DriftCondition(k, ky) ==
  ky.drift /\ k.speed > DRIFT_MIN_SPEED /\ Steering(ky) # 0

\* A player step that does not ask whether the kart has finished.
updatePlayerKartAlways(ks, ky, dt) ==
  LET k1 == [ks[Player] EXCEPT !.speed = PlayerSpeed(ks[Player], ky, dt)]
      k2 == IF DriftCondition(k1, ky)
            THEN DriftHold(k1, Steering(ky), SteerRate(k1.speed), dt)
            ELSE Steer(DriftRelease(k1), Steering(ky), SteerRate(k1.speed), dt)
      use == ky.useItem /\ k2.item # NoItem
      ks1 == [ks EXCEPT ![Player] = k2]
      ks2 == IF use THEN useItem(ks1, Player) ELSE ks1
  IN [karts |-> [ks2 EXCEPT ![Player] = KartUpdate(@, dt)],
      keys |-> IF use THEN [ky EXCEPT !.useItem = FALSE] ELSE ky]

\* updatePlayerKart: the karts and the key flags after the player's step.
updatePlayerKart(ks, ky, dt) ==
  IF ks[Player].finished THEN [karts |-> ks, keys |-> ky]
  ELSE
    LET k1 == [ks[Player] EXCEPT !.speed = PlayerSpeed(ks[Player], ky, dt)]
        k2 == IF DriftCondition(k1, ky)
              THEN DriftHold(k1, Steering(ky), SteerRate(k1.speed), dt)
              ELSE Steer(DriftRelease(k1), Steering(ky), SteerRate(k1.speed), dt)
        use == ky.useItem /\ k2.item # NoItem
        ks1 == [ks EXCEPT ![Player] = k2]
        ks2 == IF use THEN useItem(ks1, Player) ELSE ks1
    IN [karts |-> [ks2 EXCEPT ![Player] = KartUpdate(@, dt)],
        keys |-> IF use THEN [ky EXCEPT !.useItem = FALSE] ELSE ky]

\* -------------------------------------------------------------- AI physics
\* Rubber-banding that also acts at a progress difference of exactly 0.5.
RubberBandAtThreshold(ks, i, player) ==
  LET base == Scale(MAX_SPEED, AI_TARGET_FACTOR, Percent)
      diff == ks[i].totalProgress - ks[player].totalProgress
  IN IF player = NoKart THEN base
     ELSE IF diff >= RUBBER_BAND_THRESHOLD
          THEN Scale(base, 2 * Percent - RUBBER_BAND_STRENGTH, 2 * Percent)
     ELSE IF diff <= -RUBBER_BAND_THRESHOLD
          THEN Scale(base, Percent + RUBBER_BAND_STRENGTH, Percent)
     ELSE base

\* The target speed after rubber-banding, before collision avoidance.
\* player is the player's index, or NoKart when karts.find found none.
RubberBand(ks, i, player) ==
  LET base == Scale(MAX_SPEED, AI_TARGET_FACTOR, Percent)
      diff == ks[i].totalProgress - ks[player].totalProgress
  IN IF player = NoKart THEN base
     ELSE IF diff > RUBBER_BAND_THRESHOLD
          THEN Scale(base, 2 * Percent - RUBBER_BAND_STRENGTH, 2 * Percent)
     ELSE IF diff < -RUBBER_BAND_THRESHOLD
          THEN Scale(base, Percent + RUBBER_BAND_STRENGTH, Percent)
     ELSE base

RECURSIVE Crowded(_, _)
\* targetSpeed *= 0.9 once for every other kart closer than 40.
Crowded(target, n) == IF n = 0 THEN target ELSE Crowded(Scale(target, AI_CROWD_FACTOR, Percent), n - 1)

updateAIKart(ks, i, dt, player, env) ==
  IF ks[i].finished THEN ks
  ELSE
    LET k == ks[i]
        targetSpeed == Crowded(RubberBand(ks, i, player), env.close[i])
        raw == IF k.speed < targetSpeed
               THEN k.speed + Scale(ACCELERATION, 8 * dt, 10 * TicksPerSec)
               ELSE k.speed - Scale(DECELERATION, dt, 2 * TicksPerSec)
        k1 == [k EXCEPT !.speed = Clamp(0, getMaxSpeed(k), raw)]
        ks1 == [ks EXCEPT ![i] = k1]
        ks2 == IF k1.item # NoItem /\ i \in env.aiUse THEN useItem(ks1, i) ELSE ks1
    IN [ks2 EXCEPT ![i] = KartUpdate(@, dt)]


\* ------------------------------------------------------------------ Track
NextCheckpointNoWrap(c) == c + 1

\* kart.checkpoint = (kart.checkpoint + 1) % CONFIG.CHECKPOINT_COUNT
NextCheckpoint(c) == (c + 1) % CHECKPOINT_COUNT

FinishesNoLatch(k, lap) == lap >= TOTAL_LAPS

\* A finish that takes one lap more.
FinishesLate(k, lap) == lap > TOTAL_LAPS /\ ~k.finished

\* The finish test made when a lap completes: a one-way latch.
Finishes(k, lap) == lap >= TOTAL_LAPS /\ ~k.finished

\* A crossing test that forgets which checkpoint was crossed last.
CrossesAgain(k, dist) == dist < CHECKPOINT_RADIUS

\* The crossing test: within the radius of the target, which is not the
\* checkpoint crossed last.
Crosses(k, dist) == dist < CHECKPOINT_RADIUS /\ k.lastCheckpoint # k.checkpoint

\* A lap counted at every crossing.
LapCompletedAnyCrossing(cp, last) == TRUE

\* The lap test made after a crossing, on the new target and the checkpoint
\* just crossed.
LapCompleted(cp, last) == cp = 0 /\ last = CHECKPOINT_COUNT - 1

\* A crossing that does not record the checkpoint crossed.
checkCheckpointForgets(k, dist, raceTime) ==
  LET crossed == Crosses(k, dist)
      cp == IF crossed THEN NextCheckpoint(k.checkpoint) ELSE k.checkpoint
      lapDone == crossed /\ LapCompleted(cp, k.checkpoint)
      lap == IF lapDone THEN k.lap + 1 ELSE k.lap
      fin == lapDone /\ Finishes(k, lap)
  IN [k EXCEPT !.checkpoint = cp,
               !.lap = lap,
               !.finished = IF fin THEN TRUE ELSE @,
               !.finishTime = IF fin THEN raceTime ELSE @,
               !.totalProgress = lap * CHECKPOINT_COUNT * ProgressScale + cp * ProgressScale
                                 + (ProgressScale - Scale(dist, ProgressScale, PROGRESS_RANGE))]

\* Track.checkCheckpoint, given the kart's distance (pixels) to its target
\* checkpoint.  The progress term uses the distance to the checkpoint object
\* fetched before the crossing test, as the code does.
checkCheckpoint(k, dist, raceTime) ==
  LET crossed == Crosses(k, dist)
      last == IF crossed THEN k.checkpoint ELSE k.lastCheckpoint
      cp == IF crossed THEN NextCheckpoint(k.checkpoint) ELSE k.checkpoint
      lapDone == crossed /\ LapCompleted(cp, last)
      lap == IF lapDone THEN k.lap + 1 ELSE k.lap
      fin == lapDone /\ Finishes(k, lap)
  IN [k EXCEPT !.lastCheckpoint = last,
               !.checkpoint = cp,
               !.lap = lap,
               !.finished = IF fin THEN TRUE ELSE @,
               !.finishTime = IF fin THEN raceTime ELSE @,
               !.totalProgress = lap * CHECKPOINT_COUNT * ProgressScale + cp * ProgressScale
                                 + (ProgressScale - Scale(dist, ProgressScale, PROGRESS_RANGE))]

\* --------------------------------------------------------------- PowerUp
NewPowerUp == [active |-> TRUE, respawnTimer |-> 0]

\* A respawn that waits for the countdown to fall below 0.
PowerUpUpdateStrict(p, dt) ==
  IF p.active THEN p
  ELSE [p EXCEPT !.respawnTimer = @ - dt, !.active = (p.respawnTimer - dt < 0)]

PowerUpUpdate(p, dt) ==
  IF p.active THEN p
  ELSE [p EXCEPT !.respawnTimer = @ - dt, !.active = (p.respawnTimer - dt <= 0)]

\* PowerUp.collect, without the item it hands out.
collect(p) == [p EXCEPT !.active = FALSE, !.respawnTimer = RESPAWN_TIME]

\* ------------------------------------------------------------- collisions
\* The corridor limits on the horizontal line through the track centre, to the
\* right of it: centerX + limit * radiusX for the inner and the outer limit,
\* limit = 1 -/+ (width / 2 - 15) / min(radiusX, radiusY).
LimitOffset ==
  ((TRACK_WIDTH \div 2 - WALL_MARGIN) * TRACK_RADIUS_X * PosScale) \div Min(TRACK_RADIUS_X, TRACK_RADIUS_Y)
InnerX == (TRACK_CENTER_X + TRACK_RADIUS_X) * PosScale - LimitOffset
OuterX == (TRACK_CENTER_X + TRACK_RADIUS_X) * PosScale + LimitOffset

\* trackDist < innerLimit || trackDist > outerLimit: computed from the position
\* when the frame has the karts on the line through the centre, given by the
\* frame otherwise.
OffCorridor(k, i, env) ==
  IF env.across THEN k.x < InnerX \/ k.x > OuterX ELSE i \in env.wall

\* The push back onto the nearest limit along the ray from the centre, which
\* on the line through the centre is the line itself.
PushBack(x, env) ==
  IF env.across THEN (IF x < InnerX THEN InnerX ELSE OuterX) ELSE x

\* A pickup that does not look at the item the kart holds.
KartVsTrackGreedy(st, i, env, raceTime) ==
  LET k0 == st.karts[i]
      k1 == IF OffCorridor(k0, i, env)
            THEN [k0 EXCEPT !.speed = Scale(@, WALL_FACTOR, Percent), !.x = PushBack(@, env)]
            ELSE k0
      k2 == checkCheckpoint(k1, env.dist[i], raceTime)
      p == env.reach[i]
      pick == p # 0 /\ st.powerUps[p].active
  IN [karts |-> [st.karts EXCEPT ![i] = IF pick THEN [k2 EXCEPT !.item = env.roll[i]] ELSE k2],
      powerUps |-> IF pick THEN [st.powerUps EXCEPT ![p] = collect(@)] ELSE st.powerUps]

\* The per-kart part of handleCollisions: wall, checkpoint, power-up pickup.
\* The power-ups lie more than 300 px apart and the pickup radius is 34 px, so
\* a kart is in reach of one power-up at most.
KartVsTrack(st, i, env, raceTime) ==
  LET k0 == st.karts[i]
      k1 == IF OffCorridor(k0, i, env)
            THEN [k0 EXCEPT !.speed = Scale(@, WALL_FACTOR, Percent), !.x = PushBack(@, env)]
            ELSE k0
      k2 == checkCheckpoint(k1, env.dist[i], raceTime)
      p == env.reach[i]
      pick == p # 0 /\ st.powerUps[p].active /\ k2.item = NoItem
  IN [karts |-> [st.karts EXCEPT ![i] = IF pick THEN [k2 EXCEPT !.item = env.roll[i]] ELSE k2],
      powerUps |-> IF pick THEN [st.powerUps EXCEPT ![p] = collect(@)] ELSE st.powerUps]

RECURSIVE TrackLoop(_, _, _, _)
TrackLoop(st, i, env, raceTime) ==
  IF i > NumKarts THEN st
  ELSE TrackLoop(KartVsTrack(st, i, env, raceTime), i + 1, env, raceTime)

\* Math.hypot(k2.x - k1.x, k2.y - k1.y): computed from the positions when the frame
\* carries them (karts on one horizontal line), given by the frame otherwise.
PairDist(ks, i, j, env) ==
  IF env.line THEN Abs(ks[j].x - ks[i].x)
  ELSE IF <<i, j>> \in env.bump THEN env.gap ELSE MIN_DIST

BumpNoTransfer(ks, i, j, dist, env) ==
  LET cos == IF ks[j].x - ks[i].x >= 0 THEN 1 ELSE -1
      push == IF env.line THEN cos * ((MIN_DIST - dist) \div 2) ELSE 0
  IN [ks EXCEPT ![i].x = @ - push, ![j].x = @ + push]

\* One colliding pair: push apart along the joining line, transfer momentum.
\* On a horizontal line atan2 gives 0 (k2 to the right, or at the same point)
\* or pi, so the cosine is 1 or -1 and the sine 0.
Bump(ks, i, j, dist, env) ==
  LET cos == IF ks[j].x - ks[i].x >= 0 THEN 1 ELSE -1
      overlap == MIN_DIST - dist
      push == IF env.line THEN cos * (overlap \div 2) ELSE 0
      speedDiff == ks[i].speed - ks[j].speed
      moved == Scale(speedDiff, BUMP_TRANSFER, Percent)
  IN [ks EXCEPT ![i].x = @ - push, ![i].speed = @ - moved,
                ![j].x = @ + push, ![j].speed = @ + moved]

RECURSIVE PairLoop(_, _, _, _)
PairLoop(ks, i, j, env) ==
  IF i > NumKarts THEN ks
  ELSE IF j > NumKarts THEN PairLoop(ks, i + 1, i + 2, env)
  ELSE LET d == PairDist(ks, i, j, env)
       IN PairLoop(IF d < MIN_DIST THEN Bump(ks, i, j, d, env) ELSE ks, i, j + 1, env)

handleCollisions(ks, pus, env, raceTime) ==
  LET st == TrackLoop([karts |-> ks, powerUps |-> pus], 1, env, raceTime)
  IN [karts |-> PairLoop(st.karts, 1, 2, env), powerUps |-> st.powerUps]

\* -------------------------------------------------------------- positions
\* A ranking in which karts level on progress share a position.
calculatePositionsShared(ks) ==
  [k \in Karts |->
     [ks[k] EXCEPT !.position =
        1 + Cardinality({o \in Karts : ks[o].totalProgress > ks[k].totalProgress})]]

\* Stable sort by totalProgress, descending: rank = karts strictly ahead, plus
\* karts level with this one that come earlier in the list.
calculatePositions(ks) ==
  [k \in Karts |->
     [ks[k] EXCEPT !.position =
        1 + Cardinality({o \in Karts :
                           \/ ks[o].totalProgress > ks[k].totalProgress
                           \/ ks[o].totalProgress = ks[k].totalProgress /\ o < k})]]


\* ------------------------------------------------------------------- game
NoKeys == [c \in KeyNames |-> FALSE]

FreshState == [running |-> FALSE, countdown |-> COUNTDOWN_START, raceTime |-> 0, finished |-> FALSE]
FreshKarts == [k \in Karts |-> NewKart(k = Player)]
FreshPowerUps == [p \in PowerUps |-> NewPowerUp]

\* karts.find(k => k.isPlayer)
PlayerOf(ks) ==
  IF \E k \in Karts : ks[k].isPlayer
  THEN CHOOSE k \in Karts : ks[k].isPlayer /\ \A o \in Karts : ks[o].isPlayer => k <= o
  ELSE NoKart

RECURSIVE KartLoop(_, _, _, _)
\* The physics pass of game.update over the kart list, in list order.
KartLoop(st, i, player, env) ==
  IF i > NumKarts THEN st
  ELSE KartLoop(IF st.karts[i].isPlayer
                THEN updatePlayerKart(st.karts, st.keys, env.dt)
                ELSE [karts |-> updateAIKart(st.karts, i, env.dt, player, env), keys |-> st.keys],
                i + 1, player, env)

\* The karts and key flags after the physics pass of a racing frame.
Physics(ks, ky, env) == KartLoop([karts |-> ks, keys |-> ky], 1, PlayerOf(ks), env)

\* A countdown that starts the race only below 0.
CountDownStrict(gs, dt) ==
  [gs EXCEPT !.countdown = @ - dt,
             !.running = IF gs.countdown - dt < 0 THEN TRUE ELSE @]

\* The countdown branch of game.update.
CountDown(gs, dt) ==
  [gs EXCEPT !.countdown = @ - dt,
             !.running = IF gs.countdown - dt <= 0 THEN TRUE ELSE @]

\* A race that ends as soon as any kart has finished.
RaceOverAnyKart(gs, ks, player) == gs.finished \/ \E k \in Karts : ks[k].finished

\* The race-end test of game.update: the player's kart has finished.
RaceOver(gs, ks, player) == gs.finished \/ ks[player].finished

\* A restart that leaves the request standing.
RestartKeepsRequest(ky) ==
  [gameState |-> FreshState, keys |-> ky, karts |-> FreshKarts, powerUps |-> FreshPowerUps]

\* The restart of game.update: game.reset(), and the request is taken back.
Restart(ky) ==
  [gameState |-> FreshState, keys |-> [ky EXCEPT !.useItem = FALSE],
   karts |-> FreshKarts, powerUps |-> FreshPowerUps]

\* game.update(dt) as a function of the state and of the frame's input.
Step(gs, ky, ks, pus, env) ==
  IF gs.countdown > 0
  THEN [gameState |-> CountDown(gs, env.dt), keys |-> ky, karts |-> ks, powerUps |-> pus]
  ELSE IF ~gs.running
  THEN [gameState |-> gs, keys |-> ky, karts |-> ks, powerUps |-> pus]
  ELSE
    LET raceTime == gs.raceTime + env.dt
        moved == Physics(ks, ky, env)
        hitd == handleCollisions(moved.karts, pus, env, raceTime)
        pus1 == [p \in PowerUps |-> PowerUpUpdate(hitd.powerUps[p], env.dt)]
        ranked == calculatePositions(hitd.karts)
        finished == RaceOver(gs, ranked, PlayerOf(ks))
    IN IF finished /\ moved.keys.useItem
       THEN Restart(moved.keys)
       ELSE [gameState |-> [gs EXCEPT !.raceTime = raceTime, !.finished = finished],
             keys |-> moved.keys, karts |-> ranked, powerUps |-> pus1]

\* ----------------------------------------------------------------- frames
\* Sample distances (pixels) of a kart to its target checkpoint: inside and
\* outside the crossing radius.
NearDist == 10
FarDist == 120
\* Sample separation (pixels) of an overlapping pair in a race frame.
BumpGap == 10

QuietFrame(dt) ==
  [kind |-> "update", dt |-> dt, line |-> FALSE, across |-> FALSE,
   wall |-> {}, dist |-> [k \in Karts |-> FarDist],
   reach |-> [k \in Karts |-> 0], roll |-> [k \in Karts |-> "boost"],
   bump |-> {}, gap |-> BumpGap * PosScale,
   close |-> [k \in Karts |-> 0], aiUse |-> {}]

InitFrame == [QuietFrame(0) EXCEPT !.kind = "init"]

\* A racing frame reads its whole input; a countdown frame reads dt alone.
Update(env) ==
  LET racing == gameState.countdown <= 0 /\ gameState.running
      s == Step(gameState, keys, karts, powerUps, env)
  IN /\ gameState' = s.gameState
     /\ keys' = s.keys
     /\ karts' = s.karts
     /\ powerUps' = s.powerUps
     /\ frame' = IF racing THEN env ELSE QuietFrame(env.dt)
     /\ ticks' = IF racing THEN ticks + 1 ELSE ticks

\* initInput: the keydown and keyup listeners.
KeyDown(c) ==
  /\ keys' = [keys EXCEPT ![c] = TRUE]
  /\ UNCHANGED <<gameState, karts, powerUps, frame, ticks>>

KeyUp(c) ==
  /\ keys' = [keys EXCEPT ![c] = FALSE]
  /\ UNCHANGED <<gameState, karts, powerUps, frame, ticks>>

\* --------------------------------------------------- the race specification
\* From game.reset(), or from a late-race snapshot: every kart on its last lap
\* with the last checkpoint as target, rolling slowly.  The player does not
\* drive; only the space bar is touched.  Frames are 50 ms long (the cap of
\* game.loop) and bring no kart, one kart or every kart within reach of its
\* target checkpoint.
MaxTicks == 5
SnapshotTime == 60 * TicksPerSec
SnapshotSpeed == 30 * SpeedScale

LateKart(k) ==
  [NewKart(k = Player) EXCEPT
     !.speed = SnapshotSpeed,
     !.lap = TOTAL_LAPS - 1,
     !.checkpoint = CHECKPOINT_COUNT - 1,
     !.lastCheckpoint = CHECKPOINT_COUNT - 2,
     !.totalProgress = (TOTAL_LAPS - 1) * CHECKPOINT_COUNT * ProgressScale
                       + (CHECKPOINT_COUNT - 1) * ProgressScale
                       + (ProgressScale - Scale(FarDist, ProgressScale, PROGRESS_RANGE)),
     !.position = k]

InitReset ==
  /\ gameState = FreshState
  /\ keys = NoKeys
  /\ karts = FreshKarts
  /\ powerUps = FreshPowerUps
  /\ frame = InitFrame
  /\ ticks = 0

InitLateRace ==
  /\ gameState = [running |-> TRUE, countdown |-> 0, raceTime |-> SnapshotTime, finished |-> FALSE]
  /\ keys = NoKeys
  /\ karts = [k \in Karts |-> LateKart(k)]
  /\ powerUps = FreshPowerUps
  /\ frame = InitFrame
  /\ ticks = 0

Init == InitReset \/ InitLateRace

NearSets == {{}, Karts} \cup {{k} : k \in Karts}

RaceFrames ==
  {[QuietFrame(MAX_DT) EXCEPT !.dist = [k \in Karts |-> IF k \in near THEN NearDist ELSE FarDist]] :
     near \in NearSets}

Frame ==
  /\ ticks < MaxTicks
  /\ \E env \in RaceFrames : Update(env)

SpaceDown == KeyDown("useItem")
SpaceUp == KeyUp("useItem")

\* The touch build's restart: a touch on the canvas of a finished race calls
\* game.reset() and leaves the key flags alone.
TouchRestart ==
  /\ gameState.finished
  /\ gameState' = FreshState
  /\ karts' = FreshKarts
  /\ powerUps' = FreshPowerUps
  /\ frame' = [InitFrame EXCEPT !.kind = "touch"]
  /\ UNCHANGED <<keys, ticks>>

\* A frame of 1/60 s during the countdown, so that the countdown can pass
\* below 0 as well as end on it.
ShortFrame ==
  /\ gameState.countdown > 0
  /\ Update(QuietFrame(1))

Next == Frame \/ ShortFrame \/ SpaceDown \/ SpaceUp \/ TouchRestart

Spec == Init /\ [][Next]_vars


\* ------------------------------------------------ the effects specification
\* From a mid-race snapshot: the player at full speed with accelerate held, the
\* CPU karts at their cruising speed, the player and the first CPU kart each
\* holding any item or none.  A frame brings at most one event: one kart off
\* the corridor, one overlapping pair, or the first CPU kart's random item use.
MaxEffectTicks == 2

CruiseKart(k, item) ==
  [NewKart(k = Player) EXCEPT
     !.speed = IF k = Player THEN MAX_SPEED ELSE Scale(MAX_SPEED, AI_TARGET_FACTOR, Percent),
     !.item = item,
     !.lap = 1, !.checkpoint = 2, !.lastCheckpoint = 1,
     !.totalProgress = CHECKPOINT_COUNT * ProgressScale + 2 * ProgressScale
                       + (ProgressScale - Scale(FarDist, ProgressScale, PROGRESS_RANGE)),
     !.position = k]

Holdings == ItemTypes \cup {NoItem}

InitCruise ==
  /\ gameState = [running |-> TRUE, countdown |-> 0, raceTime |-> SnapshotTime, finished |-> FALSE]
  /\ keys = [NoKeys EXCEPT !.up = TRUE]
  /\ \E a \in Holdings, b \in Holdings :
       karts = [k \in Karts |-> CruiseKart(k, IF k = Player THEN a ELSE IF k = 2 THEN b ELSE NoItem)]
  /\ powerUps = FreshPowerUps
  /\ frame = InitFrame
  /\ ticks = 0

EffectFrames ==
  {QuietFrame(MAX_DT)}
    \cup {[QuietFrame(MAX_DT) EXCEPT !.wall = {k}] : k \in Karts}
    \cup {[QuietFrame(MAX_DT) EXCEPT !.bump = {p}] : p \in Pairs}
    \cup {[QuietFrame(MAX_DT) EXCEPT !.aiUse = {2}]}

EffectFrame ==
  /\ ticks < MaxEffectTicks
  /\ \E env \in EffectFrames : Update(env)

NextEffects == EffectFrame \/ SpaceDown \/ SpaceUp

SpecEffects == InitCruise /\ [][NextEffects]_vars

\* ------------------------------------------------- the player specification
\* From a state the game reaches when the player, cruising at full speed, has
\* held accelerate, drift and one steering key for a number of 50 ms frames:
\* none, just below, at and just above the release threshold of the charge, and
\* long enough to fill the charge.  From there the player presses and releases
\* the driving keys freely, and frames are 1/60 s or 50 ms long.
MaxPlayerTicks == 2
HeldFrames == {0, 14, 15, 16, 50}
PlayerKeys == {"up", "left", "right", "drift"}
FrameTimes == {1, MAX_DT}

CruiseState ==
  [gameState |-> [running |-> TRUE, countdown |-> 0, raceTime |-> SnapshotTime, finished |-> FALSE],
   keys |-> [NoKeys EXCEPT !.up = TRUE],
   karts |-> [k \in Karts |-> CruiseKart(k, NoItem)],
   powerUps |-> FreshPowerUps]

\* Frames are run in batches, so that the nesting of the evaluation stays shallow.
HeldBatch == 10

RECURSIVE HeldRun(_, _, _)
\* The states n quiet frames of length dt after the states of S, with the keys
\* left alone.
HeldRun(S, n, dt) ==
  IF n = 0 THEN S
  ELSE IF n > HeldBatch THEN HeldRun(HeldRun(S, HeldBatch, dt), n - HeldBatch, dt)
  ELSE UNION {HeldRun({nx}, n - 1, dt) :
                nx \in {Step(st.gameState, st.keys, st.karts, st.powerUps, QuietFrame(dt)) : st \in S}}

InitPlayer ==
  \E n \in HeldFrames, dir \in {"left", "right"} :
    \E st \in HeldRun({[CruiseState EXCEPT !.keys.drift = TRUE, !.keys[dir] = TRUE]}, n, MAX_DT) :
      /\ gameState = st.gameState
      /\ keys = st.keys
      /\ karts = st.karts
      /\ powerUps = st.powerUps
      /\ frame = InitFrame
      /\ ticks = 0

PlayerFrame ==
  /\ ticks < MaxPlayerTicks
  /\ \E dt \in FrameTimes : Update(QuietFrame(dt))

Press == \E c \in PlayerKeys : ~keys[c] /\ KeyDown(c)
Release == \E c \in PlayerKeys : keys[c] /\ KeyUp(c)

NextPlayer == PlayerFrame \/ Press \/ Release

SpecPlayer == InitPlayer /\ [][NextPlayer]_vars

\* -------------------------------------------------- the boost specification
\* From the snapshots of a held drift with the charge just below, just above
\* and far above the release threshold, the player holding a boost or a shield
\* item.  The player lets go of and presses the drift key and the space bar;
\* accelerate and the steering key stay down.
MaxBoostTicks == 2
BoostHeldFrames == {14, 16, 50}
BoostHoldings == {"boost", "shield"}
BoostKeys == {"drift", "useItem"}

InitBoost ==
  \E n \in BoostHeldFrames, item \in BoostHoldings :
    \E st \in HeldRun({[CruiseState EXCEPT !.keys.drift = TRUE, !.keys.right = TRUE]}, n, MAX_DT) :
      /\ gameState = st.gameState
      /\ keys = st.keys
      /\ karts = [st.karts EXCEPT ![Player].item = item]
      /\ powerUps = st.powerUps
      /\ frame = InitFrame
      /\ ticks = 0

BoostFrame ==
  /\ ticks < MaxBoostTicks
  /\ \E dt \in FrameTimes : Update(QuietFrame(dt))

PressBoost == \E c \in BoostKeys : ~keys[c] /\ KeyDown(c)
ReleaseBoost == \E c \in BoostKeys : keys[c] /\ KeyUp(c)

NextBoost == BoostFrame \/ PressBoost \/ ReleaseBoost

SpecBoost == InitBoost /\ [][NextBoost]_vars

\* -------------------------------------------------- the drift specification
\* From the cruise snapshot with accelerate, drift and one steering key held:
\* frames of 1/60 s, and the player may let go of the drift key once.
MaxDriftTicks == 50

InitDrift ==
  \E dir \in {"left", "right"} :
    /\ gameState = CruiseState.gameState
    /\ keys = [CruiseState.keys EXCEPT !.drift = TRUE, ![dir] = TRUE]
    /\ karts = CruiseState.karts
    /\ powerUps = CruiseState.powerUps
    /\ frame = InitFrame
    /\ ticks = 0

DriftTick ==
  /\ ticks < MaxDriftTicks
  /\ Update(QuietFrame(1))

ReleaseDrift == keys.drift /\ KeyUp("drift")

NextDrift == DriftTick \/ ReleaseDrift

SpecDrift == InitDrift /\ [][NextDrift]_vars

\* ----------------------------------------------------- the AI specification
\* updateAIKart applied to the karts of a cruise snapshot in which the first
\* CPU kart is level with the first kart of the list, or ahead of it or behind
\* it by 0.5 or a little more or less, and rolls at or just below one of the
\* three target speeds (a kart above MAX_SPEED is one that used a boost item).
\* The first kart of the list is the player, or a CPU kart as well: then
\* karts.find finds no player.  No kart is near another.
MaxAICalls == 2
ProgressGaps == {-120, -101, -100, -99, 0, 99, 100, 101, 120}
TargetSpeeds ==
  {Scale(MAX_SPEED, AI_TARGET_FACTOR, Percent),
   Scale(Scale(MAX_SPEED, AI_TARGET_FACTOR, Percent), 2 * Percent - RUBBER_BAND_STRENGTH, 2 * Percent),
   Scale(Scale(MAX_SPEED, AI_TARGET_FACTOR, Percent), Percent + RUBBER_BAND_STRENGTH, Percent)}
AISpeeds == TargetSpeeds \cup {t - 1 : t \in TargetSpeeds}

AIKart(k, gap, speed, withPlayer) ==
  LET c == CruiseKart(k, NoItem)
  IN IF k = 2
     THEN [c EXCEPT !.totalProgress = @ + gap,
                    !.speed = speed,
                    !.boosting = speed > MAX_SPEED,
                    !.boostTimer = IF speed > MAX_SPEED THEN BOOST_DURATION \div 2 ELSE 0]
     ELSE [c EXCEPT !.isPlayer = (k = Player /\ withPlayer)]

AIFrame(i) ==
  [kind |-> "ai", kart |-> i, dt |-> 1, close |-> [k \in Karts |-> 0], aiUse |-> {}]

InitAI ==
  /\ gameState = CruiseState.gameState
  /\ keys = NoKeys
  /\ \E gap \in ProgressGaps, speed \in AISpeeds, withPlayer \in BOOLEAN :
       karts = [k \in Karts |-> AIKart(k, gap, speed, withPlayer)]
  /\ powerUps = FreshPowerUps
  /\ frame = InitFrame
  /\ ticks = 0

AIUpdate ==
  /\ ticks < MaxAICalls
  /\ \E i \in Karts :
       /\ ~karts[i].isPlayer
       /\ karts' = updateAIKart(karts, i, AIFrame(i).dt, PlayerOf(karts), AIFrame(i))
       /\ frame' = AIFrame(i)
  /\ ticks' = ticks + 1
  /\ UNCHANGED <<gameState, keys, powerUps>>

NextAI == AIUpdate

SpecAI == InitAI /\ [][NextAI]_vars

\* -------------------------------------------------- the drive specification
\* From a running race in which the player stands still, crawls, cruises or
\* runs at or near full speed, under no effect, a boost or a slow-down, with
\* any of the accelerate, brake and steering keys pressed and released freely
\* (the drift key is left alone), in quiet frames of 1/60 s or 50 ms.
MaxDriveTicks == 2
DriveSpeeds == {0, SpeedScale, 50 * SpeedScale, MAX_SPEED - SpeedScale, MAX_SPEED}
DriveEffects == {"none", "boost", "slow"}
DriveKeys == {"up", "down", "left", "right"}

DriveKart(k, speed, effect) ==
  IF k = Player
  THEN [CruiseKart(k, NoItem) EXCEPT
          !.speed = speed,
          !.boosting = (effect = "boost"),
          !.boostTimer = IF effect = "boost" THEN BOOST_DURATION \div 2 ELSE 0,
          !.slowed = (effect = "slow"),
          !.slowTimer = IF effect = "slow" THEN SLOW_DURATION \div 2 ELSE 0]
  ELSE CruiseKart(k, NoItem)

InitDrive ==
  /\ gameState = CruiseState.gameState
  /\ keys = NoKeys
  /\ \E speed \in DriveSpeeds, effect \in DriveEffects :
       karts = [k \in Karts |-> DriveKart(k, speed, effect)]
  /\ powerUps = FreshPowerUps
  /\ frame = InitFrame
  /\ ticks = 0

DriveFrame ==
  /\ ticks < MaxDriveTicks
  /\ \E dt \in FrameTimes : Update(QuietFrame(dt))

PressDrive == \E c \in DriveKeys : ~keys[c] /\ KeyDown(c)
ReleaseDrive == \E c \in DriveKeys : keys[c] /\ KeyUp(c)

NextDrive == DriveFrame \/ PressDrive \/ ReleaseDrive

SpecDrive == InitDrive /\ [][NextDrive]_vars

\* ------------------------------------------------- the pickup specification
\* From a running race in which the first power-up is active or has been
\* collected a while ago (its countdown about to run out, or just started) and
\* the player holds a boost item or nothing.  A frame brings the player, the
\* first CPU kart or both within reach of the first or the second power-up,
\* which hands out a boost or a shield; the space bar is pressed and released
\* freely.
MaxPickupTicks == 2
RespawnTimes == {0, 1, MAX_DT, MAX_DT + 1, RESPAWN_TIME - MAX_DT}
PickupRolls == {"boost", "shield"}

PickupPowerUp(p, timer) ==
  IF p = 1 /\ timer > 0 THEN [active |-> FALSE, respawnTimer |-> timer] ELSE NewPowerUp

PickupFrames ==
  {QuietFrame(dt) : dt \in FrameTimes}
    \cup {[QuietFrame(dt) EXCEPT !.reach[k] = p, !.roll[k] = r] :
            dt \in FrameTimes, k \in {Player, 2}, p \in {1, 2}, r \in PickupRolls}
    \cup {[QuietFrame(dt) EXCEPT !.reach[Player] = 1, !.reach[2] = 1] : dt \in FrameTimes}

InitPickup ==
  /\ gameState = CruiseState.gameState
  /\ keys = CruiseState.keys
  /\ \E item \in {NoItem, "boost"} :
       karts = [k \in Karts |-> CruiseKart(k, IF k = Player THEN item ELSE NoItem)]
  /\ \E timer \in RespawnTimes : powerUps = [p \in PowerUps |-> PickupPowerUp(p, timer)]
  /\ frame = InitFrame
  /\ ticks = 0

PickupFrame ==
  /\ ticks < MaxPickupTicks
  /\ \E env \in PickupFrames : Update(env)

NextPickup == PickupFrame \/ SpaceDown \/ SpaceUp

SpecPickup == InitPickup /\ [][NextPickup]_vars

\* --------------------------------------------------- the item specification
\* useItem on its own, called for any kart of a running race in which the
\* player and the first CPU kart hold any item or none, some karts are
\* shielded and some are already slowed with part of the slow time gone.
MaxItemCalls == 2
SlowLeft == TicksPerSec
ShieldLeft == 2 * TicksPerSec

ItemKart(k, item, shielded, slowed) ==
  [CruiseKart(k, item) EXCEPT
     !.shielded = shielded, !.shieldTimer = IF shielded THEN ShieldLeft ELSE 0,
     !.slowed = slowed, !.slowTimer = IF slowed THEN SlowLeft ELSE 0]

ItemFrame(i, item) == [kind |-> "useItem", kart |-> i, item |-> item]

InitItem ==
  /\ gameState = CruiseState.gameState
  /\ keys = CruiseState.keys
  /\ \E a \in Holdings, b \in Holdings, sh \in SUBSET {3, NumKarts}, sl \in SUBSET {2, 3} :
       karts = [k \in Karts |->
                  ItemKart(k, IF k = Player THEN a ELSE IF k = 2 THEN b ELSE NoItem,
                           k \in sh, k \in sl)]
  /\ powerUps = FreshPowerUps
  /\ frame = ItemFrame(0, NoItem)
  /\ ticks = 0

UseItem ==
  /\ ticks < MaxItemCalls
  /\ \E i \in Karts :
       /\ karts' = useItem(karts, i)
       /\ frame' = ItemFrame(i, karts[i].item)
  /\ ticks' = ticks + 1
  /\ UNCHANGED <<gameState, keys, powerUps>>

NextItem == UseItem

SpecItem == InitItem /\ [][NextItem]_vars

\* ------------------------------------------------- the finish specification
\* From the late-race snapshot, with the player and the first CPU kart holding
\* an item or none.  A frame brings the player, the first CPU kart or both
\* within the radius of the last checkpoint; the first CPU kart may use its
\* item; the space bar is pressed and released freely.  A kart that has
\* finished stands where it crossed the last checkpoint, one checkpoint away
\* from its new target.
MaxFinishTicks == 3
\* Distance (pixels) between neighbouring checkpoints: hypot(320, 220).
CheckpointGap == 388
RivalHoldings == {NoItem, "slow"}

FinishFrames(ks) ==
  {[QuietFrame(MAX_DT) EXCEPT
      !.dist = [k \in Karts |-> IF ks[k].finished THEN CheckpointGap
                                ELSE IF k \in near THEN NearDist ELSE FarDist],
      !.aiUse = use] :
     near \in SUBSET {Player, 2}, use \in SUBSET {2}}

InitFinish ==
  /\ gameState = [running |-> TRUE, countdown |-> 0, raceTime |-> SnapshotTime, finished |-> FALSE]
  /\ keys = NoKeys
  /\ \E a \in Holdings, b \in RivalHoldings :
       karts = [k \in Karts |->
                  [LateKart(k) EXCEPT !.item = IF k = Player THEN a ELSE IF k = 2 THEN b ELSE NoItem]]
  /\ powerUps = FreshPowerUps
  /\ frame = InitFrame
  /\ ticks = 0

FinishFrame ==
  /\ ticks < MaxFinishTicks
  /\ \E env \in FinishFrames(karts) : Update(env)

NextFinish == FinishFrame \/ SpaceDown \/ SpaceUp

SpecFinish == InitFinish /\ [][NextFinish]_vars

\* ------------------------------------------------ the physics specification
\* updatePlayerKart and updateAIKart on their own, called for any kart of a
\* late race in which the player and the first CPU kart have finished or not,
\* hold a slow item or none, and are at rest in mid-action or not: at speed,
\* the player drifting with a charge, boosted and shielded.  Any of the
\* accelerate, right, drift and use-item keys is down; a CPU kart may decide to
\* use its item.
MaxStillCalls == 2
StillKeys == {"up", "right", "drift", "useItem"}
StillHoldings == {NoItem, "slow"}

StillKart(k, fin, item, busy) ==
  LET late == [LateKart(k) EXCEPT !.item = item, !.speed = IF busy THEN MAX_SPEED ELSE 0]
      done == IF fin
              THEN [late EXCEPT !.lap = TOTAL_LAPS, !.checkpoint = 0,
                                !.lastCheckpoint = CHECKPOINT_COUNT - 1,
                                !.finished = TRUE, !.finishTime = SnapshotTime - TicksPerSec]
              ELSE late
      acting == IF busy
                THEN [done EXCEPT !.boosting = TRUE, !.boostTimer = TicksPerSec,
                                  !.shielded = TRUE, !.shieldTimer = 2 * TicksPerSec]
                ELSE done
  IN IF busy /\ k = Player
     THEN [acting EXCEPT !.drifting = TRUE, !.driftDirection = 1,
                         !.driftBoost = DRIFT_RELEASE_CHARGE + ChargeScale,
                         !.driftAngleOffset = DRIFT_ANGLE_MAX \div 2]
     ELSE acting

PhysFrame(i, use) ==
  [kind |-> "physics", kart |-> i, dt |-> MAX_DT,
   close |-> [k \in Karts |-> 0], aiUse |-> IF use THEN {i} ELSE {}]

InitStill ==
  /\ gameState = [running |-> TRUE, countdown |-> 0, raceTime |-> SnapshotTime, finished |-> FALSE]
  /\ \E down \in SUBSET StillKeys : keys = [c \in KeyNames |-> c \in down]
  /\ \E fins \in SUBSET {Player, 2}, item \in StillHoldings, busy \in BOOLEAN :
       karts = [k \in Karts |->
                  StillKart(k, k \in fins, IF k \in {Player, 2} THEN item ELSE NoItem, busy)]
  /\ powerUps = FreshPowerUps
  /\ frame = InitFrame
  /\ ticks = 0

PlayerStep ==
  /\ ticks < MaxStillCalls
  /\ LET s == updatePlayerKart(karts, keys, PhysFrame(Player, FALSE).dt)
     IN karts' = s.karts /\ keys' = s.keys
  /\ frame' = PhysFrame(Player, FALSE)
  /\ ticks' = ticks + 1
  /\ UNCHANGED <<gameState, powerUps>>

AIStep ==
  /\ ticks < MaxStillCalls
  /\ \E i \in Karts \ {Player}, use \in BOOLEAN :
       /\ karts' = updateAIKart(karts, i, PhysFrame(i, use).dt, PlayerOf(karts), PhysFrame(i, use))
       /\ frame' = PhysFrame(i, use)
  /\ ticks' = ticks + 1
  /\ UNCHANGED <<gameState, keys, powerUps>>

NextStill == PlayerStep \/ AIStep

SpecStill == InitStill /\ [][NextStill]_vars

\* --------------------------------------------- the checkpoint specification
\* Track.checkCheckpoint applied to karts whose lap, target checkpoint,
\* checkpoint crossed last and finished flag take every combination of values
\* (the function accepts any kart; in a race the checkpoint crossed last is
\* always the one before the target), at distances on both sides of the
\* crossing radius, the kart standing on the checkpoint included, and up to the
\* distance of a kart that stands on the checkpoint before its target.
MaxCheckCalls == 1
CrossDists ==
  {0, NearDist, CHECKPOINT_RADIUS - 1, CHECKPOINT_RADIUS, FarDist,
   PROGRESS_RANGE, PROGRESS_RANGE + 1, CheckpointGap}

CheckKart(k, lap, cp, last, fin) ==
  [CruiseKart(k, NoItem) EXCEPT
     !.lap = lap, !.checkpoint = cp, !.lastCheckpoint = last,
     !.finished = fin, !.finishTime = IF fin THEN SnapshotTime - TicksPerSec ELSE 0]

CheckFrame(k, dist) == [kind |-> "check", kart |-> k, dist |-> dist]

InitCheck ==
  /\ gameState = CruiseState.gameState
  /\ keys = NoKeys
  /\ \E lap \in 0..TOTAL_LAPS, cp \in 0..(CHECKPOINT_COUNT - 1),
        last \in -1..(CHECKPOINT_COUNT - 1), fin \in BOOLEAN :
       karts = [k \in Karts |-> CheckKart(k, lap, cp, last, fin)]
  /\ powerUps = FreshPowerUps
  /\ frame = InitFrame
  /\ ticks = 0

Check ==
  /\ ticks < MaxCheckCalls
  /\ \E k \in Karts, dist \in CrossDists :
       /\ karts' = [karts EXCEPT ![k] = checkCheckpoint(@, dist, gameState.raceTime)]
       /\ frame' = CheckFrame(k, dist)
  /\ ticks' = ticks + 1
  /\ UNCHANGED <<gameState, keys, powerUps>>

NextCheck == Check

SpecCheck == InitCheck /\ [][NextCheck]_vars

\* ---------------------------------------------- the collision specification
\* handleCollisions applied to karts lined up on the start straight (y = 80,
\* where the corridor spans x = 186..614): every kart at one of a few sample
\* abscissas (pixels), several of them closer than minDist to each other or
\* equal, and with one of two speeds.  The karts have crossed checkpoint 0 and
\* are far from their target; no power-up is in reach.
MaxCollideCalls == 2
LineXs == {300, 380, 390, 400, 410, 480}
LineSpeeds == {50 * SpeedScale, 100 * SpeedScale}

LineKart(k, x, speed) ==
  [NewKart(k = Player) EXCEPT
     !.x = x * PosScale, !.speed = speed,
     !.lap = 1, !.checkpoint = 1, !.lastCheckpoint = 0,
     !.totalProgress = CHECKPOINT_COUNT * ProgressScale + ProgressScale
                       + (ProgressScale - Scale(FarDist, ProgressScale, PROGRESS_RANGE)),
     !.position = k]

LineFrame == [QuietFrame(MAX_DT) EXCEPT !.kind = "collide", !.line = TRUE]

InitLine ==
  /\ gameState = [running |-> TRUE, countdown |-> 0, raceTime |-> SnapshotTime, finished |-> FALSE]
  /\ keys = NoKeys
  /\ \E xs \in [Karts -> LineXs], ss \in [Karts -> LineSpeeds] :
       karts = [k \in Karts |-> LineKart(k, xs[k], ss[k])]
  /\ powerUps = FreshPowerUps
  /\ frame = InitFrame
  /\ ticks = 0

Collide ==
  /\ ticks < MaxCollideCalls
  /\ LET r == handleCollisions(karts, powerUps, LineFrame, gameState.raceTime)
     IN karts' = r.karts /\ powerUps' = r.powerUps
  /\ frame' = LineFrame
  /\ ticks' = ticks + 1
  /\ UNCHANGED <<gameState, keys>>

NextCollide == Collide

SpecCollide == InitLine /\ [][NextCollide]_vars

\* ------------------------------------------------- the corridor specification
\* handleCollisions applied to karts abreast on the line through the track
\* centre and checkpoint 1 (y = 300, where the corridor spans x = 654.5..785.5
\* and the push back from the wall runs along the line): every kart at one of
\* a few sample abscissas (pixels), inside the corridor or a little beyond
\* either limit, several of them closer than minDist to each other.  The karts
\* have crossed checkpoint 1 and are one checkpoint away from their target.
MaxAcrossCalls == 2
AcrossXs == {650, 690, 720, 775, 780, 790}

AcrossKart(k, x, speed) ==
  [NewKart(k = Player) EXCEPT
     !.x = x * PosScale, !.speed = speed,
     !.lap = 1, !.checkpoint = 2, !.lastCheckpoint = 1,
     !.totalProgress = CHECKPOINT_COUNT * ProgressScale + 2 * ProgressScale
                       + (ProgressScale - Scale(CheckpointGap, ProgressScale, PROGRESS_RANGE)),
     !.position = k]

AcrossFrame ==
  [QuietFrame(MAX_DT) EXCEPT !.kind = "collide", !.line = TRUE, !.across = TRUE,
                             !.dist = [k \in Karts |-> CheckpointGap]]

InitAcross ==
  /\ gameState = [running |-> TRUE, countdown |-> 0, raceTime |-> SnapshotTime, finished |-> FALSE]
  /\ keys = NoKeys
  /\ \E xs \in [Karts -> AcrossXs], ss \in [{Player, 2} -> LineSpeeds] :
       karts = [k \in Karts |->
                  AcrossKart(k, xs[k], IF k \in {Player, 2} THEN ss[k] ELSE 100 * SpeedScale)]
  /\ powerUps = FreshPowerUps
  /\ frame = InitFrame
  /\ ticks = 0

CollideAcross ==
  /\ ticks < MaxAcrossCalls
  /\ LET r == handleCollisions(karts, powerUps, AcrossFrame, gameState.raceTime)
     IN karts' = r.karts /\ powerUps' = r.powerUps
  /\ frame' = AcrossFrame
  /\ ticks' = ticks + 1
  /\ UNCHANGED <<gameState, keys>>

NextAcross == CollideAcross

SpecAcross == InitAcross /\ [][NextAcross]_vars

\* A step in which game.update called game.reset(): the countdown only grows there.
ResetStep == gameState'.countdown > gameState.countdown

\* C2: within a session, once a kart's finished flag is true no later frame
\* changes its finished flag or its finishTime, whatever checkpoints it crosses
\* and laps it completes afterwards.
C2_FinishLatch ==
  [][~ResetStep =>
       \A k \in Karts :
         karts[k].finished =>
           karts'[k].finished /\ karts'[k].finishTime = karts[k].finishTime]_vars

\* A finished kart that went on to complete a further lap.
C2_Witness ==
  \E k \in Karts :
    /\ karts[k].finished
    /\ karts[k].lap > TOTAL_LAPS
    /\ karts[k].finishTime < gameState.raceTime

\* C5: the target checkpoint index stays in [0, CHECKPOINT_COUNT); within a
\* session a step changes it only by a crossing (the kart within the crossing
\* radius in that frame), to (old + 1) mod CHECKPOINT_COUNT, recording the old
\* index as last crossed: at most one advance per kart and frame.
C5_CheckpointOrder ==
  /\ [](\A k \in Karts : karts[k].checkpoint \in 0..(CHECKPOINT_COUNT - 1))
  /\ [][~ResetStep =>
          \A k \in Karts :
            \/ karts'[k].checkpoint = karts[k].checkpoint
            \/ /\ karts'[k].checkpoint = (karts[k].checkpoint + 1) % CHECKPOINT_COUNT
               /\ karts'[k].lastCheckpoint = karts[k].checkpoint
               /\ ticks' = ticks + 1
               /\ frame'.dist[k] < CHECKPOINT_RADIUS]_vars

\* A kart whose target wrapped from the last checkpoint back to index 0.
C5_Witness ==
  \E k \in Karts :
    karts[k].checkpoint = 0 /\ karts[k].lastCheckpoint = CHECKPOINT_COUNT - 1


\* C1: at the end of every frame every kart's speed lies in [0, getMaxSpeed()],
\* the maximum being read with the boost and slow flags as the frame left them.
C1_SpeedBound ==
  \A k \in Karts : 0 <= karts[k].speed /\ karts[k].speed <= getMaxSpeed(karts[k])

\* The collision events of kart k in a frame.
WallHit(k, env) == k \in env.wall
PairHit(k, env) == \E p \in env.bump : k = p[1] \/ k = p[2]

\* C3: a shielded kart that meets a wall or another kart during collision
\* resolution loses its shield and keeps the speed the physics pass left it;
\* an unshielded kart that meets a wall pays the speed penalty.
C3_ShieldAbsorbs ==
  [][(ticks' = ticks + 1 /\ ~ResetStep) =>
       \A k \in Karts :
         LET mid == Physics(karts, keys, frame').karts[k]
         IN /\ (mid.shielded /\ (WallHit(k, frame') \/ PairHit(k, frame'))) =>
                 (~karts'[k].shielded /\ karts'[k].speed >= mid.speed)
            /\ (~mid.shielded /\ WallHit(k, frame') /\ ~PairHit(k, frame')) =>
                 karts'[k].speed = Scale(mid.speed, WALL_FACTOR, Percent)]_vars

\* Distance of two karts on the line.
Apart(i, j) == Abs(karts[j].x - karts[i].x)
LineTolerance == PosScale \div 100

\* C4: once handleCollisions has returned, every pair of distinct karts is at
\* least minDist apart (up to a hundredth of a pixel), whatever the positions
\* were before the call.
C4_Separated ==
  ticks > 0 => \A p \in Pairs : Apart(p[1], p[2]) >= MIN_DIST - LineTolerance

\* The pair <<i, j>> overlaps and every other kart is out of its way.
Isolated(i, j) ==
  /\ 0 < Apart(i, j) /\ Apart(i, j) < MIN_DIST
  /\ \A o \in Karts \ {i, j} : Apart(o, i) >= 2 * MIN_DIST /\ Apart(o, j) >= 2 * MIN_DIST

\* C9: an overlapping pair at distance 0 < d < minDist that no other kart
\* touches leaves handleCollisions with each kart moved (minDist - d) / 2 away
\* from the other, hence exactly minDist apart, and with 0.3 of the speed
\* difference moved from the first kart to the second: the sum is unchanged.
C9_PairBump ==
  [][ticks' = ticks + 1 =>
       \A p \in Pairs :
         LET i == p[1]
             j == p[2]
             d == Apart(i, j)
             away == IF karts[j].x > karts[i].x THEN 1 ELSE -1
             diff == karts[i].speed - karts[j].speed
         IN Isolated(i, j) =>
              /\ 2 * (karts[i].x - karts'[i].x) = away * (MIN_DIST - d)
              /\ 2 * (karts'[j].x - karts[j].x) = away * (MIN_DIST - d)
              /\ Abs(karts'[j].x - karts'[i].x) = MIN_DIST
              /\ karts'[i].speed = karts[i].speed - Scale(diff, BUMP_TRANSFER, Percent)
              /\ karts'[j].speed = karts[j].speed + Scale(diff, BUMP_TRANSFER, Percent)
              /\ karts'[i].speed + karts'[j].speed = karts[i].speed + karts[j].speed]_vars

\* Two karts that were 10 pixels apart with speeds 100 and 50, the others far
\* away: 25 pixels apart, with speeds 85 and 65.
C9_Witness ==
  /\ ticks = 1
  /\ karts[1].x = 380 * PosScale - (15 * PosScale) \div 2
  /\ karts[2].x = 390 * PosScale + (15 * PosScale) \div 2
  /\ karts[1].speed = 85 * SpeedScale /\ karts[2].speed = 65 * SpeedScale
  /\ \A o \in Karts \ {1, 2} : Apart(o, 1) >= 2 * MIN_DIST /\ Apart(o, 2) >= 2 * MIN_DIST

\* C6: the player's slide angle stays within [-0.5, 0.5] rad and the drift
\* charge within [0, DRIFT_BOOST_MAX], whatever keys are pressed and whatever
\* the frame times are.
C6_DriftRanges ==
  /\ -DRIFT_ANGLE_MAX <= karts[Player].driftAngleOffset
  /\ karts[Player].driftAngleOffset <= DRIFT_ANGLE_MAX
  /\ 0 <= karts[Player].driftBoost
  /\ karts[Player].driftBoost <= DRIFT_BOOST_MAX

\* A drift that went on with the charge full and the slide angle at its limit.
C6_Witness ==
  /\ ticks > 0
  /\ karts[Player].drifting
  /\ karts[Player].driftBoost = DRIFT_BOOST_MAX
  /\ Abs(karts[Player].driftAngleOffset) = DRIFT_ANGLE_MAX

\* C7: in a frame in which the player's drift ends, the release branch starts
\* a boost (boosting, the timer set to DRIFT_BOOST_DURATION) exactly when the
\* charge was above 30, and resets drifting, the charge and the slide angle;
\* the frame ends with that state after the timers have run for the frame's
\* time, so with the charge and the slide angle at 0 and, after a boost, the
\* timer at DRIFT_BOOST_DURATION less the frame's time.
C7_DriftEnd ==
  [][(ticks' = ticks + 1 /\ karts[Player].drifting /\ ~karts'[Player].drifting) =>
       LET k == karts[Player]
           rel == DriftRelease([k EXCEPT !.speed = PlayerSpeed(k, keys, frame'.dt)])
           charged == k.driftBoost > DRIFT_RELEASE_CHARGE
       IN /\ charged <=> (rel.boosting /\ rel.boostTimer = DRIFT_BOOST_DURATION)
          /\ ~rel.drifting /\ rel.driftBoost = 0 /\ rel.driftAngleOffset = 0
          /\ karts'[Player] = calculatePositions(
                                 [karts' EXCEPT ![Player] =
                                    KartUpdate(Steer(rel, Steering(keys), SteerRate(rel.speed),
                                                     frame'.dt), frame'.dt)])[Player]
          /\ karts'[Player].driftBoost = 0
          /\ karts'[Player].driftAngleOffset = 0
          /\ charged <=> (/\ karts'[Player].boosting
                          /\ karts'[Player].boostTimer = DRIFT_BOOST_DURATION - frame'.dt)]_vars

\* A drift that has just ended with a boost.
C7_Witness ==
  /\ ticks > 0
  /\ ~karts[Player].drifting
  /\ karts[Player].driftDirection # 0
  /\ karts[Player].boosting
  /\ karts[Player].boostTimer = DRIFT_BOOST_DURATION - frame.dt

\* 0.75 s in frames of 1/60 s.
HoldTicks == (3 * TicksPerSec) \div 4

\* C8: with accelerate, drift and a steering key held from full speed in
\* frames of 1/60 s, every frame leaves the player drifting with the charge
\* grown by DRIFT_BOOST_RATE / 60; letting go of the drift key after more than
\* 45 such frames starts a boost.
C8_HeldDrift ==
  [][ticks' = ticks + 1 =>
       /\ (keys.up /\ keys.drift /\ Steering(keys) # 0) =>
            /\ karts'[Player].drifting
            /\ karts'[Player].driftBoost
                 = Min(DRIFT_BOOST_MAX, ticks' * Scale(DRIFT_BOOST_RATE, 1, TicksPerSec))
       /\ (~keys.drift /\ karts[Player].drifting /\ ticks > HoldTicks) =>
            karts'[Player].boosting]_vars

\* The target speed the rubber-banding rule prescribes for kart i, in 1/100 km/h:
\* 0.85 * MAX_SPEED times 1.3, 0.85 or 1.
PrescribedTarget(i) ==
  LET gap == karts[i].totalProgress - karts[Player].totalProgress
  IN IF ~karts[Player].isPlayer THEN 17000
     ELSE IF gap < -(ProgressScale \div 2) THEN 22100
     ELSE IF gap > ProgressScale \div 2 THEN 14450
     ELSE 17000

\* C10: with no kart nearby, updateAIKart moves a CPU kart's speed toward
\* 0.85 * MAX_SPEED times 1.3 when the kart is more than 0.5 behind the player,
\* times 0.85 when it is more than 0.5 ahead, and times 1 otherwise (a gap of
\* exactly 0.5 either way included, and when there is no player): it speeds up
\* by 0.8 * ACCELERATION * dt below that target, and slows down by
\* 0.5 * DECELERATION * dt at or above it.
C10_RubberBand ==
  [][ticks' = ticks + 1 =>
       LET i == frame'.kart
           dt == frame'.dt
           want == IF karts[i].speed < PrescribedTarget(i)
                   THEN karts[i].speed + (8 * (ACCELERATION \div 10) * dt) \div TicksPerSec
                   ELSE karts[i].speed - ((DECELERATION \div 2) * dt) \div TicksPerSec
       IN karts'[i].speed = Clamp(0, getMaxSpeed(karts[i]), want)]_vars

\* The first CPU kart exactly 0.5 behind the player, having slowed down from
\* the unscaled target speed.
C10_Witness ==
  /\ ticks = 1
  /\ frame.kart = 2
  /\ karts[Player].isPlayer
  /\ karts[2].totalProgress = karts[Player].totalProgress - ProgressScale \div 2
  /\ karts[2].speed = 17000 - ((DECELERATION \div 2) * frame.dt) \div TicksPerSec

\* C11: checkCheckpoint called for a kart that is within the crossing radius of
\* its target while the checkpoint it crossed last is that same target triggers
\* no crossing: target, checkpoint crossed last, lap, finished flag and finish
\* time stay as they were.
C11_NoRetrigger ==
  [][ticks' = ticks + 1 =>
       LET k == frame'.kart
       IN (frame'.dist < CHECKPOINT_RADIUS /\ karts[k].lastCheckpoint = karts[k].checkpoint) =>
            /\ karts'[k].checkpoint = karts[k].checkpoint
            /\ karts'[k].lastCheckpoint = karts[k].lastCheckpoint
            /\ karts'[k].lap = karts[k].lap
            /\ karts'[k].finished = karts[k].finished
            /\ karts'[k].finishTime = karts[k].finishTime]_vars

\* A kart checked while standing on its target, the last checkpoint of its last
\* lap, which is also the checkpoint it crossed last.
C11_Witness ==
  /\ ticks > 0
  /\ frame.dist = 0
  /\ karts[frame.kart].checkpoint = CHECKPOINT_COUNT - 1
  /\ karts[frame.kart].lastCheckpoint = CHECKPOINT_COUNT - 1
  /\ karts[frame.kart].lap = TOTAL_LAPS - 1
  /\ ~karts[frame.kart].finished

Collects(k, p) ==
  /\ frame'.reach[k] = p
  /\ Physics(karts, keys, frame').karts[k].item = NoItem
  /\ karts'[k].item = frame'.roll[k]

\* C13: at the end of every frame an inactive power-up has a respawn countdown
\* above 0; an inactive power-up becomes active in the first frame in which its
\* countdown reaches 0 or less, and not before; an active power-up becomes
\* inactive only when a kart collects it, and its countdown then starts at 5 s.
C13_Respawn ==
  /\ [](\A p \in PowerUps : ~powerUps[p].active => powerUps[p].respawnTimer > 0)
  /\ [][(ticks' = ticks + 1 /\ ~ResetStep) =>
          \A p \in PowerUps :
            /\ ~powerUps[p].active =>
                 /\ powerUps'[p].active <=> (powerUps[p].respawnTimer - frame'.dt <= 0)
                 /\ powerUps'[p].respawnTimer = powerUps[p].respawnTimer - frame'.dt
            /\ (powerUps[p].active /\ ~powerUps'[p].active) =>
                 /\ \E k \in Karts : Collects(k, p)
                 /\ powerUps'[p].respawnTimer = RESPAWN_TIME - frame'.dt]_vars

\* A power-up whose countdown ran out exactly in the last frame, active again.
C13_Witness ==
  /\ ticks = 1
  /\ frame.dt = MAX_DT
  /\ powerUps[1].active
  /\ powerUps[1].respawnTimer = 0

\* C17: the use-item input is a pulse: a racing frame that sees it set leaves
\* it cleared, so that it is not set across several frames, and the player's
\* held item goes away only in a frame that saw the input set.
C17_UsePulse ==
  [][(ticks' = ticks + 1 /\ ~karts[Player].finished) =>
       /\ keys.useItem => ~keys'.useItem
       /\ (karts[Player].item # NoItem /\ karts'[Player].item = NoItem) => keys.useItem]_vars

\* C14: at the end of every frame gameState.finished is true exactly when the
\* player's kart has finished, however many CPU karts have finished.
C14_PlayerEndsRace == gameState.finished <=> karts[PlayerOf(karts)].finished

\* Every CPU kart has finished and the race goes on.
C14_Witness ==
  /\ \A k \in Karts \ {Player} : karts[k].finished
  /\ ~karts[Player].finished
  /\ ~gameState.finished
  /\ gameState.running

\* The restart requests: the use-item flag seen by a frame of a finished race,
\* and a touch on the canvas of a finished race.
KeyRestartStep == ticks' = ticks + 1 /\ gameState.finished /\ keys.useItem
TouchRestartStep == frame.kind # "touch" /\ frame'.kind = "touch"

\* C15: a restart request in a finished race leaves every kart at speed 0,
\* lap 0, checkpoint 0, checkpoint crossed last -1, with no item, no effect and
\* not finished, every power-up active, countdown 3 s, running false, raceTime 0
\* and finished false; the use-item flag that made the request is cleared.
C15_Restart ==
  [][(KeyRestartStep \/ TouchRestartStep) =>
       /\ \A k \in Karts :
            /\ karts'[k].speed = 0
            /\ karts'[k].lap = 0
            /\ karts'[k].checkpoint = 0
            /\ karts'[k].lastCheckpoint = -1
            /\ karts'[k].item = NoItem
            /\ ~karts'[k].boosting /\ ~karts'[k].slowed /\ ~karts'[k].shielded
            /\ ~karts'[k].finished
       /\ \A p \in PowerUps : powerUps'[p].active
       /\ gameState'.countdown = COUNTDOWN_START
       /\ ~gameState'.running
       /\ gameState'.raceTime = 0
       /\ ~gameState'.finished
       /\ KeyRestartStep => ~keys'.useItem]_vars

\* A new race started by the space bar after the frame that ended the old one.
C15_Witness ==
  /\ ticks >= 2
  /\ frame.kind = "update"
  /\ frame.dist[Player] = FarDist
  /\ gameState.countdown = COUNTDOWN_START
  /\ ~keys.useItem

\* C16: running is false and raceTime is 0 while the countdown is above 0;
\* running becomes true exactly in the frame that takes the countdown from
\* above 0 to 0 or below and, like finished, is not cleared again except by a
\* reset; a countdown frame changes no kart and no power-up; every frame after
\* the countdown adds its dt to raceTime.
C16_Phases ==
  /\ [](gameState.countdown > 0 => ~gameState.running /\ gameState.raceTime = 0)
  /\ [](gameState.finished => gameState.running)
  /\ [][~ResetStep =>
          /\ gameState.running => gameState'.running
          /\ gameState.finished => gameState'.finished
          /\ (~gameState.running /\ gameState'.running)
               <=> (gameState.countdown > 0 /\ gameState'.countdown <= 0)
          /\ gameState.countdown > 0 =>
               karts' = karts /\ powerUps' = powerUps /\ gameState'.raceTime = 0
          /\ gameState.countdown <= 0 => gameState'.countdown = gameState.countdown
          /\ ticks' = ticks + 1 => gameState'.raceTime = gameState.raceTime + frame'.dt]_vars

\* A race under way whose countdown ended below 0.
C16_Witness ==
  /\ gameState.running
  /\ gameState.countdown < 0
  /\ gameState.raceTime = 2 * MAX_DT
  /\ ticks = 2

\* C18: in every racing frame a kart that crosses its target checkpoint moves
\* its target on by one (modulo CHECKPOINT_COUNT), so that checkpoints are
\* crossed in the order 0, 1, ..., CHECKPOINT_COUNT - 1; its lap count goes up
\* by one when the target crossed is the last checkpoint and stays as it is in
\* every other frame; and the kart's finished flag is set, with finishTime the
\* frame's raceTime, exactly in the frame that takes its lap count from below
\* TOTAL_LAPS to TOTAL_LAPS.
C18_LapCount ==
  [][(ticks' = ticks + 1 /\ ~ResetStep) =>
       \A k \in Karts :
         LET crossing == /\ frame'.dist[k] < CHECKPOINT_RADIUS
                         /\ karts[k].lastCheckpoint # karts[k].checkpoint
             lastOne == karts[k].checkpoint = CHECKPOINT_COUNT - 1
             reaches == karts[k].lap < TOTAL_LAPS /\ karts'[k].lap >= TOTAL_LAPS
         IN /\ karts'[k].lap = IF crossing /\ lastOne THEN karts[k].lap + 1 ELSE karts[k].lap
            /\ karts'[k].checkpoint = IF crossing
                                      THEN (IF lastOne THEN 0 ELSE karts[k].checkpoint + 1)
                                      ELSE karts[k].checkpoint
            /\ crossing => karts'[k].lastCheckpoint = karts[k].checkpoint
            /\ reaches => karts'[k].finished /\ karts'[k].finishTime = gameState'.raceTime
            /\ (~karts[k].finished /\ karts'[k].finished) => reaches]_vars

\* A first lap completed from the start: four crossings in four frames.
C18_Witness ==
  /\ ticks = CHECKPOINT_COUNT
  /\ \E k \in Karts :
       /\ karts[k].lap = 1
       /\ karts[k].checkpoint = 0
       /\ karts[k].lastCheckpoint = CHECKPOINT_COUNT - 1
       /\ ~karts[k].finished
       /\ frame.dist[k] = NearDist

\* C19: once a racing frame has run, the karts' positions are a permutation of
\* 1..NumKarts; a kart with strictly greater totalProgress has a strictly
\* smaller position, and of two karts with equal totalProgress the one earlier
\* in the kart list has the smaller position.
C19_Ranking ==
  gameState.raceTime > 0 =>
    /\ \A n \in 1..NumKarts : \E k \in Karts : karts[k].position = n
    /\ \A k \in Karts : karts[k].position \in 1..NumKarts
    /\ \A a, b \in Karts :
         /\ karts[a].totalProgress > karts[b].totalProgress => karts[a].position < karts[b].position
         /\ (karts[a].totalProgress = karts[b].totalProgress /\ a < b)
              => karts[a].position < karts[b].position

\* The player and the first CPU kart level on progress behind the last kart of
\* the list, after racing frames from the start.
C19_Witness ==
  /\ gameState.raceTime = ticks * MAX_DT
  /\ ticks >= 2
  /\ karts[Player].totalProgress = karts[2].totalProgress
  /\ karts[NumKarts].totalProgress > karts[Player].totalProgress
  /\ karts[NumKarts].position = 1
  /\ karts[Player].position < karts[2].position

\* C20: a slow item sets slowed and slowTimer = SLOW_DURATION on every other
\* kart that is not shielded, and leaves the slowed flag and slow timer of the
\* user and of every shielded kart as they were; any use leaves the user with
\* no item, an item other than slow changes no other kart, and a use with no
\* item held changes nothing.
C20_SlowItem ==
  [][ticks' = ticks + 1 =>
       LET u == frame'.kart
           item == karts[u].item
           same(o) == /\ karts'[o].slowed = karts[o].slowed
                      /\ karts'[o].slowTimer = karts[o].slowTimer
       IN /\ karts'[u].item = NoItem
          /\ same(u)
          /\ item = "slow" =>
               \A o \in Karts \ {u} :
                 IF karts[o].shielded
                 THEN same(o)
                 ELSE karts'[o].slowed /\ karts'[o].slowTimer = SLOW_DURATION
          /\ item # "slow" => \A o \in Karts \ {u} : karts'[o] = karts[o]
          /\ item = NoItem => karts' = karts]_vars

\* The first CPU kart used a slow item: the player is slowed afresh, the
\* shielded last kart is not.
C20_Witness ==
  /\ ticks > 0
  /\ frame.kart = 2
  /\ frame.item = "slow"
  /\ karts[Player].slowed /\ karts[Player].slowTimer = SLOW_DURATION
  /\ karts[3].slowed /\ karts[3].slowTimer = SLOW_DURATION
  /\ karts[NumKarts].shielded /\ ~karts[NumKarts].slowed
  /\ ~karts[2].slowed

\* Kart k uses a held item of the given type in the physics pass of the frame
\* leading to the primed state.
Uses(k, item) ==
  /\ ~karts[k].finished
  /\ karts[k].item = item
  /\ IF k = Player THEN keys.useItem ELSE k \in frame'.aiUse

\* C21: in every racing frame, every effect of every kart that is on and is
\* not applied again in that frame loses the frame's dt from its timer, and
\* its flag is off as soon as the timer is at 0 or below; so an effect set
\* with timer T is over after at most ceil(T/dt) frames.
C21_EffectsExpire ==
  [][(ticks' = ticks + 1 /\ ~ResetStep) =>
       \A k \in Karts :
         /\ (karts[k].boosting /\ ~Uses(k, "boost")) =>
              /\ karts'[k].boostTimer = karts[k].boostTimer - frame'.dt
              /\ karts'[k].boosting <=> karts'[k].boostTimer > 0
         /\ (karts[k].shielded /\ ~Uses(k, "shield")) =>
              /\ karts'[k].shieldTimer = karts[k].shieldTimer - frame'.dt
              /\ karts'[k].shielded <=> karts'[k].shieldTimer > 0
         /\ (karts[k].slowed /\ ~\E j \in Karts \ {k} : Uses(j, "slow")) =>
              /\ karts'[k].slowTimer = karts[k].slowTimer - frame'.dt
              /\ karts'[k].slowed <=> karts'[k].slowTimer > 0]_vars

\* The item kart k holds when the collision pass of the frame begins.
HeldAtPickup(k) == Physics(karts, keys, frame').karts[k].item

\* The karts in reach of power-up p in the frame, with no item in hand.
Takers(p) == {k \in Karts : frame'.reach[k] = p /\ HeldAtPickup(k) = NoItem}

\* C22: in the collision pass a kart that holds an item keeps it and collects
\* nothing; an active power-up with no empty-handed kart in reach stays
\* active; one with such karts in reach becomes inactive with its countdown
\* started, and exactly one of those karts, the first in the list, receives an
\* item of {boost, shield, slow}; a kart in reach of an inactive power-up
\* receives nothing.
C22_Pickup ==
  [][(ticks' = ticks + 1 /\ ~ResetStep) =>
       /\ \A k \in Karts :
            /\ HeldAtPickup(k) # NoItem => karts'[k].item = HeldAtPickup(k)
            /\ (frame'.reach[k] = 0 \/ ~powerUps[frame'.reach[k]].active) =>
                 karts'[k].item = HeldAtPickup(k)
       /\ \A p \in PowerUps :
            powerUps[p].active =>
              IF Takers(p) = {}
              THEN powerUps'[p] = powerUps[p]
              ELSE /\ ~powerUps'[p].active
                   /\ powerUps'[p].respawnTimer = RESPAWN_TIME - frame'.dt
                   /\ \A k \in Takers(p) :
                        IF \A o \in Takers(p) : k <= o
                        THEN karts'[k].item \in ItemTypes /\ karts'[k].item = frame'.roll[k]
                        ELSE karts'[k].item = NoItem]_vars

\* The player and the first CPU kart reached the first power-up together: the
\* player took it, the CPU kart went away empty-handed.
C22_Witness ==
  /\ ticks = 1
  /\ frame.reach[Player] = 1 /\ frame.reach[2] = 1
  /\ ~powerUps[1].active
  /\ powerUps[1].respawnTimer = RESPAWN_TIME - frame.dt
  /\ karts[Player].item = frame.roll[Player]
  /\ karts[2].item = NoItem

\* C23: after every call of checkCheckpoint the kart's totalProgress is
\* lap * CHECKPOINT_COUNT + checkpoint + f with a fractional term f in [0, 1).
C23_Fraction ==
  [][ticks' = ticks + 1 =>
       LET k == karts'[frame'.kart]
           f == k.totalProgress - (k.lap * CHECKPOINT_COUNT + k.checkpoint) * ProgressScale
       IN 0 <= f /\ f < ProgressScale]_vars

\* The player's drift ends with a boost in the frame leading to the primed state.
DriftBoostFires ==
  /\ karts[Player].drifting
  /\ ~karts'[Player].drifting
  /\ karts[Player].driftBoost > DRIFT_RELEASE_CHARGE

\* C24: a boost item used in a frame leaves boostTimer at BOOST_DURATION less
\* the frame's dt, whatever the timer was; a drift boost fired in a frame
\* without an item boost leaves it at DRIFT_BOOST_DURATION less dt, whatever
\* the timer was, a longer item boost included; with neither, a running boost
\* loses dt.  The timer never exceeds BOOST_DURATION.
C24_SharedBoost ==
  /\ [](karts[Player].boostTimer <= BOOST_DURATION)
  /\ [][ticks' = ticks + 1 =>
          IF Uses(Player, "boost")
          THEN /\ karts'[Player].boosting
               /\ karts'[Player].boostTimer = BOOST_DURATION - frame'.dt
          ELSE IF DriftBoostFires
          THEN /\ karts'[Player].boosting
               /\ karts'[Player].boostTimer = DRIFT_BOOST_DURATION - frame'.dt
          ELSE karts[Player].boosting =>
                 karts'[Player].boostTimer = karts[Player].boostTimer - frame'.dt]_vars

\* A drift boost fired in the frame after the boost item was used: the time
\* left is that of the drift boost.
C24_Witness ==
  /\ ticks = 2
  /\ karts[Player].item = NoItem
  /\ ~karts[Player].shielded
  /\ ~karts[Player].drifting
  /\ karts[Player].boosting
  /\ karts[Player].boostTimer = DRIFT_BOOST_DURATION - frame.dt

\* C25: at the end of every frame a kart that has finished has a smaller
\* position value than every kart that has not.
C25_FinishedAhead ==
  \A k \in Karts, o \in Karts :
    (karts[k].finished /\ ~karts[o].finished) => karts[k].position < karts[o].position

\* C26: the session is reset only from a finished race: the frame in which the
\* player finishes does not reset it, so that the finished state is there at
\* the end of at least one frame.
C26_FinishShown == [][ResetStep => gameState.finished]_vars

\* C27: the physics step of a kart that has finished changes nothing: not that
\* kart's speed, heading, drift state, held item, effect flags and timers, no
\* other kart, and no key flag, the use-item flag included.
C27_FinishedStill ==
  [][(ticks' = ticks + 1 /\ karts[frame'.kart].finished) =>
       karts' = karts /\ keys' = keys]_vars

\* The step of a finished player that was drifting at speed with a boost and a
\* shield running and holds a slow item, with every key down.
C27_Witness ==
  /\ ticks > 0
  /\ frame.kart = Player
  /\ karts[Player].finished
  /\ karts[Player].item = "slow"
  /\ karts[Player].drifting
  /\ karts[Player].speed = MAX_SPEED
  /\ karts[Player].boostTimer = TicksPerSec
  /\ \A c \in StillKeys : keys[c]

\* C28: after the whole collision pass every kart is within the corridor
\* limits of the wall step.
C28_InCorridor ==
  ticks > 0 => \A k \in Karts : InnerX <= karts[k].x /\ karts[k].x <= OuterX

\* C29: in every state of a race and for every kart, the checkpoint crossed
\* last differs from the target: it is -1 before the kart's first crossing
\* (target 0, lap 0) and the index before the target, modulo CHECKPOINT_COUNT,
\* afterwards.
C29_LastBeforeTarget ==
  \A k \in Karts :
    /\ karts[k].lastCheckpoint # karts[k].checkpoint
    /\ \/ karts[k].lastCheckpoint = -1 /\ karts[k].checkpoint = 0 /\ karts[k].lap = 0
       \/ karts[k].lastCheckpoint = (karts[k].checkpoint + CHECKPOINT_COUNT - 1) % CHECKPOINT_COUNT

\* After four frames from the start the player has been round once and the
\* last kart of the list has not crossed anything yet.
C29_Witness ==
  /\ ticks = CHECKPOINT_COUNT
  /\ karts[Player].lastCheckpoint = CHECKPOINT_COUNT - 1
  /\ karts[Player].checkpoint = 0
  /\ karts[Player].lap = 1
  /\ karts[NumKarts].lastCheckpoint = -1
  /\ karts[NumKarts].checkpoint = 0

\* C30: in every state of a race and for every kart, finished is true exactly
\* when lap >= TOTAL_LAPS, and a finished kart has 0 < finishTime <= raceTime.
C30_FinishedIffLaps ==
  \A k \in Karts :
    /\ karts[k].finished <=> karts[k].lap >= TOTAL_LAPS
    /\ karts[k].finished =>
         0 < karts[k].finishTime /\ karts[k].finishTime <= gameState.raceTime

\* The player finished a while ago; a CPU kart is still on its last lap.
C30_Witness ==
  /\ karts[Player].finished
  /\ karts[Player].lap = TOTAL_LAPS
  /\ karts[Player].finishTime < gameState.raceTime
  /\ ~karts[2].finished
  /\ karts[2].lap = TOTAL_LAPS - 1

====
